---------------------------- MODULE Spec2Model ----------------------------
(***************************************************************************)
(* Model of msmorgan/file_tree (src/src/main.rs): get_file_tree walks a    *)
(* directory recursively, builds an Entry tree with aggregated sizes, and  *)
(* main prints the tree through the Debug rendering of Entry.              *)
(*                                                                         *)
(* The filesystem is the environment: every filesystem call               *)
(* (fs::read_dir, the ReadDir iterator, DirEntry::file_type,               *)
(* fs::read_link, DirEntry::metadata) answers nondeterministically, within *)
(* the bounds below, and every answer is appended to the ghost log `calls`.*)
(*                                                                         *)
(* Names and link targets are byte sequences (OsString / PathBuf), text is *)
(* a sequence of Unicode code points.  Sizes are u64 values counted in     *)
(* units of 2^61 bytes, so that the u64 range is 0 .. U64Units - 1 units   *)
(* and additions of such values are exact.                                 *)
(***************************************************************************)
EXTENDS Integers, Sequences, FiniteSets, TLC

VARIABLES
    root_path,   \* options.dir: the path handed to get_file_tree (components)
    pc,          \* position of the single thread of control
    stack,       \* activations of get_child_entries, outermost first
    cur,         \* the fs::DirEntry being converted by Entry::try_from
    result,      \* what get_file_tree returned (or how the process ended)
    output,      \* text written to standard output (code points)
    calls        \* ghost: every filesystem call issued so far, with its answer

vars == <<root_path, pc, stack, cur, result, output, calls>>

---------------------------------------------------------------------------
\* Bounds of the explored filesystems.

\* largest number of directory entries the whole walked filesystem yields
MaxEntries == 3

\* deepest nesting of real directories (the root directory is level 1)
MaxDepth == 3

---------------------------------------------------------------------------
\* Code points written by fmt_entry and println!.

SP == 32
LF == 10
BAR == 9474
CORNER == 9492
TEE == 9500
REPLACEMENT == 65533

\* u64 holds 2^64 bytes = 8 units of 2^61 bytes.
U64Units == 8

\* Entry names the listing yields: "a", "b" followed by the undecodable byte
\* 0xFF, and the two-byte UTF-8 sequence of U+00E9.  No name here holds the
\* byte 0x0A; a name that does spreads its entry over two lines of text.
Names == { <<97>>, <<98, 255>>, <<195, 169>> }

\* Lengths DirEntry::metadata reports, in units of 2^61 bytes (2 EiB and
\* 6 EiB: st_size is below 2^63).
FileLens == {1, 3}

\* What fs::read_link can report: the raw target of the link, and what
\* following the link would reach.  ".." is an ancestor directory, "l" the
\* link itself (a loop), "g" nothing.
LinkKinds ==
    { [target |-> <<46, 46>>, follows |-> "dir"],
      [target |-> <<108>>,    follows |-> "loop"],
      [target |-> <<103>>,    follows |-> "none"] }

NoLink == [target |-> << >>, follows |-> "none"]

\* What DirEntry::file_type can report: a directory, a symbolic link, a
\* regular file, anything else (device, socket, FIFO)
FileTypes == {"dir", "symlink", "file", "other"}

\* no fs::DirEntry at hand
NoDirEntry == [name |-> << >>, type |-> "none"]

\* The io::Error a failed filesystem call reports.  The program never looks
\* into it: it is identified by the call that reported it.
IoError(op, path) == [op |-> op, path |-> path]

NoError == [op |-> "none", path |-> << >>]

\* options.dir, as path components: "r"
RootPaths == { << <<114>> >> }

---------------------------------------------------------------------------
\* Entry and EntryData.

File == [kind |-> "File"]

Unknown == [kind |-> "Unknown"]

Symlink(target) == [kind |-> "Symlink", target |-> target]

Directory(children) == [kind |-> "Directory", children |-> children]

Entry(name, size, data) == [name |-> name, size |-> size, data |-> data]

\* the final component of a path, the innermost activation of a stack
Last(s) == s[Len(s)]

---------------------------------------------------------------------------
\* Text.

RECURSIVE Repeat(_, _)
\* `for _ in 0..n { write!(f, seg) }`
Repeat(seg, n) == IF n <= 0 THEN << >> ELSE seg \o Repeat(seg, n - 1)

RECURSIVE ToStringLossy(_)
\* OsStr::to_string_lossy on names made of ASCII bytes, two-byte UTF-8
\* sequences and undecodable bytes: every undecodable byte becomes U+FFFD.
ToStringLossy(bytes) ==
    IF bytes = << >> THEN << >>
    ELSE IF bytes[1] < 128
         THEN <<bytes[1]>> \o ToStringLossy(Tail(bytes))
    ELSE IF /\ bytes[1] \in 194..223
            /\ Len(bytes) >= 2
            /\ bytes[2] \in 128..191
         THEN <<(bytes[1] - 192) * 64 + (bytes[2] - 128)>>
                  \o ToStringLossy(Tail(Tail(bytes)))
    ELSE <<REPLACEMENT>> \o ToStringLossy(Tail(bytes))

\* Bars with a bug: one segment per ancestor below the root only
BarsAncestorsOnly(depth) == Repeat(<<SP, BAR>>, depth - 1)

\* the vertical-bar segments written by the loop over 0..depth
Bars(depth) == Repeat(<<SP, BAR>>, depth)

\* the connector segment written when depth > 0
Connector(depth, is_last) ==
    IF depth > 0
    THEN (IF is_last THEN <<SP, CORNER>> ELSE <<SP, TEE>>)
    ELSE << >>

\* IsLastChild with a bug: `next` tested before the look-ahead, when it
\* still holds the child being written
IsLastChildStale(children, i) == FALSE

\* `next.is_none()` after the look-ahead `next = iter.next()`, while the
\* i-th child is being written
IsLastChild(children, i) == i = Len(children)

\* the depth passed to the recursive call
ChildDepth(depth) == depth + 1

RECURSIVE FmtEntry(_, _, _), FmtChildren(_, _, _)
\* fmt_entry(entry, f, depth, is_last): the text it writes
FmtEntry(entry, depth, is_last) ==
    LET head == Bars(depth) \o Connector(depth, is_last)
                    \o ToStringLossy(entry.name)
    IN  IF entry.data.kind = "Directory"
        THEN head \o <<LF>>
                  \o FmtChildren(entry.data.children, 1, depth)
                  \o <<LF>>
        ELSE head \o <<LF>>

\* the while-let loop over the children, from the i-th child on
FmtChildren(children, i, depth) ==
    IF i > Len(children) THEN << >>
    ELSE FmtEntry(children[i], ChildDepth(depth), IsLastChild(children, i))
             \o FmtChildren(children, i + 1, depth)

\* <Entry as fmt::Debug>::fmt
DebugFmt(entry) == FmtEntry(entry, 0, TRUE)

---------------------------------------------------------------------------
\* The filesystem calls and their log.

\* One filesystem call and its answer: `name` is the name a listing yielded,
\* `type` the file type reported, `link` the link read, `len` the length.
Call(op, path, res, err, name, type, link, len) ==
    [op |-> op, path |-> path, res |-> res, err |-> err,
     name |-> name, type |-> type, link |-> link, len |-> len]

\* the call succeeded with the given answer
Ok(op, path, name, type, link, len) ==
    calls' = Append(calls, Call(op, path, "ok", NoError, name, type, link, len))

\* the call failed
Failed(op, path) ==
    calls' = Append(calls, Call(op, path, "err", IoError(op, path),
                                << >>, "none", NoLink, 0))

\* the iterator reported the end of the listing of `path`
Ended(path) ==
    calls' = Append(calls, Call("next", path, "end", NoError,
                                << >>, "none", NoLink, 0))

\* number of directory entries the listings have yielded so far
ListedCount == Cardinality({i \in DOMAIN calls :
                               calls[i].op = "next" /\ calls[i].res = "ok"})

\* names the listing of directory `path` has yielded so far
ListedNames(path) ==
    {calls[i].name : i \in {j \in DOMAIN calls :
        calls[j].op = "next" /\ calls[j].res = "ok" /\ calls[j].path = path}}

\* Path::file_name: the final component, unless there is none or it is ".."
FileName(path) ==
    IF path = << >> \/ Last(path) = <<46, 46>> THEN << >> ELSE Last(path)

\* DirEntry::path: the listed directory's path joined with the entry's name
EntryPath(dir, name) == Append(dir, name)

\* IsDir with a bug: symbolic links count as directories too
IsDirOrLink(file_type) == file_type \in {"dir", "symlink"}

\* FileType::is_dir, is_symlink, is_file: the entry's own type
IsDir(file_type) == file_type = "dir"

IsSymlink(file_type) == file_type = "symlink"

IsFile(file_type) == file_type = "file"

---------------------------------------------------------------------------
\* The build.

Frame(path) == [path |-> path, entries |-> << >>, total_size |-> 0]

\* Propagate with a bug: below the root a failed call only skips the entry
\* at hand and the listing goes on
SkipFailedEntry(err) ==
    /\ pc' = IF stack = << >> THEN "failed" ELSE "next"
    /\ result' = IF stack = << >> THEN [kind |-> "Err", error |-> err]
                  ELSE result
    /\ stack' = stack
    /\ cur' = NoDirEntry
    /\ UNCHANGED <<root_path, output>>

\* the `?` operator: the error leaves every activation, get_file_tree
\* returns it, main returns it without printing
Propagate(err) ==
    /\ pc' = "failed"
    /\ result' = [kind |-> "Err", error |-> err]
    /\ stack' = << >>
    /\ cur' = NoDirEntry
    /\ UNCHANGED <<root_path, output>>

\* FileEntry with a bug: the reported length is dropped
FileEntryNoLen(name, len) == Entry(name, 0, File)

\* the Entry of a regular file whose metadata reports `len`
FileEntry(name, len) == Entry(name, len, File)

SymlinkEntry(name, link_to) == Entry(name, 0, Symlink(link_to))

UnknownEntry(name) == Entry(name, 0, Unknown)

DirectoryEntry(name, children, size) == Entry(name, size, Directory(children))

\* Push with a bug: entries.insert(0, entry)
PushFront(entries, entry) == <<entry>> \o entries

\* entries.push(entry)
Push(entries, entry) == Append(entries, entry)

\* `total_size += entry.size; entries.push(entry)` in the activation on top
\* of `st`.  When the sum does not fit u64 the addition panics in a build
\* with overflow checks and wraps in a build without.
Accumulate(st, entry) ==
    LET top == Last(st)
        sum == top.total_size + entry.size
        rest == SubSeq(st, 1, Len(st) - 1)
    IN  \/ /\ sum >= U64Units
           /\ pc' = "panicked"
           /\ result' = [kind |-> "Panic"]
           /\ stack' = << >>
           /\ cur' = NoDirEntry
        \/ /\ pc' = "next"
           /\ stack' = Append(rest,
                  [top EXCEPT !.total_size = sum % U64Units,
                              !.entries = Push(top.entries, entry)])
           /\ cur' = NoDirEntry
           /\ UNCHANGED result

\* fs::read_dir(path) at the head of get_child_entries
ReadDir(path) ==
    \/ /\ Ok("read_dir", path, << >>, "none", NoLink, 0)
       /\ stack' = Append(stack, Frame(path))
       /\ pc' = "next"
       /\ cur' = NoDirEntry
       /\ UNCHANGED <<root_path, result, output>>
    \/ /\ Failed("read_dir", path)
       /\ Propagate(IoError("read_dir", path))

\* get_file_tree calls get_child_entries(&path)
GetFileTree ==
    /\ pc = "start"
    /\ ReadDir(root_path)

\* the ReadDir iterator yields the next entry, or an error
DirIterNext ==
    /\ pc = "next"
    /\ LET dir == Last(stack).path IN
       \/ \E n \in Names \ ListedNames(dir) :
             /\ ListedCount < MaxEntries
             /\ Ok("next", dir, n, "none", NoLink, 0)
             /\ cur' = [name |-> n, type |-> "none"]
             /\ pc' = "file_type"
             /\ UNCHANGED <<root_path, stack, result, output>>
       \/ /\ Failed("next", dir)
          /\ Propagate(IoError("next", dir))

\* Entry::try_from: dir_entry.file_name(), dir_entry.file_type()?
FileType ==
    /\ pc = "file_type"
    /\ LET path == EntryPath(Last(stack).path, cur.name) IN
       \/ \E t \in FileTypes :
             /\ t = "dir" => Len(stack) < MaxDepth
             /\ Ok("file_type", path, cur.name, t, NoLink, 0)
             /\ cur' = [cur EXCEPT !.type = t]
             /\ pc' = "convert"
             /\ UNCHANGED <<root_path, stack, result, output>>
       \/ /\ Failed("file_type", path)
          /\ Propagate(IoError("file_type", path))

\* Entry::try_from, is_dir branch: get_child_entries(dir_entry.path())
ConvertDirectory ==
    /\ pc = "convert"
    /\ IsDir(cur.type)
    /\ ReadDir(EntryPath(Last(stack).path, cur.name))

\* Entry::try_from, is_symlink branch: fs::read_link(dir_entry.path())
ConvertSymlink ==
    /\ pc = "convert"
    /\ ~IsDir(cur.type) /\ IsSymlink(cur.type)
    /\ LET path == EntryPath(Last(stack).path, cur.name) IN
       \/ \E l \in LinkKinds :
             /\ Ok("read_link", path, cur.name, cur.type, l, 0)
             /\ Accumulate(stack, SymlinkEntry(cur.name, l.target))
             /\ UNCHANGED <<root_path, output>>
       \/ /\ Failed("read_link", path)
          /\ Propagate(IoError("read_link", path))

\* Entry::try_from, is_file branch: dir_entry.metadata()
ConvertFile ==
    /\ pc = "convert"
    /\ ~IsDir(cur.type) /\ ~IsSymlink(cur.type) /\ IsFile(cur.type)
    /\ LET path == EntryPath(Last(stack).path, cur.name) IN
       \/ \E len \in FileLens :
             /\ Ok("metadata", path, cur.name, cur.type, NoLink, len)
             /\ Accumulate(stack, FileEntry(cur.name, len))
             /\ UNCHANGED <<root_path, output>>
       \/ /\ Failed("metadata", path)
          /\ Propagate(IoError("metadata", path))

\* Entry::try_from, else branch
ConvertUnknown ==
    /\ pc = "convert"
    /\ ~IsDir(cur.type) /\ ~IsSymlink(cur.type) /\ ~IsFile(cur.type)
    /\ Accumulate(stack, UnknownEntry(cur.name))
    /\ UNCHANGED <<root_path, output, calls>>

\* The listing of a subdirectory ends: get_child_entries returns
\* Ok((entries, total_size)) to Entry::try_from, which returns the Directory
\* entry to the loop of the parent activation.
ReturnToTryFrom ==
    /\ pc = "next"
    /\ Len(stack) > 1
    /\ LET top == Last(stack) IN
       /\ Ended(top.path)
       /\ Accumulate(SubSeq(stack, 1, Len(stack) - 1),
                     DirectoryEntry(Last(top.path), top.entries, top.total_size))
    /\ UNCHANGED <<root_path, output>>

\* The listing of the root ends: get_child_entries returns to get_file_tree,
\* which returns Ok(FileTree).
ReturnToGetFileTree ==
    /\ pc = "next"
    /\ Len(stack) = 1
    /\ LET top == Last(stack) IN
       /\ Ended(top.path)
       /\ result' = [kind |-> "Ok",
                     root_path |-> root_path,
                     root_entry |-> DirectoryEntry(FileName(root_path),
                                        top.entries, top.total_size)]
    /\ stack' = << >>
    /\ cur' = NoDirEntry
    /\ pc' = "built"
    /\ UNCHANGED <<root_path, output>>

\* main: println!("{:?}", &file_tree.root_entry); Ok(())
MainPrint ==
    /\ pc = "built"
    /\ output' = DebugFmt(result.root_entry) \o <<LF>>
    /\ pc' = "done"
    /\ UNCHANGED <<root_path, stack, cur, result, calls>>

Init ==
    /\ root_path \in RootPaths
    /\ pc = "start"
    /\ stack = << >>
    /\ cur = NoDirEntry
    /\ result = [kind |-> "None"]
    /\ output = << >>
    /\ calls = << >>

Next ==
    \/ GetFileTree
    \/ DirIterNext
    \/ FileType
    \/ ConvertDirectory
    \/ ConvertSymlink
    \/ ConvertFile
    \/ ConvertUnknown
    \/ ReturnToTryFrom
    \/ ReturnToGetFileTree
    \/ MainPrint

Spec == Init /\ [][Next]_vars

\* The program is one thread that runs until it exits.
FairSpec == Spec /\ WF_vars(Next)

---------------------------------------------------------------------------
\* What the properties speak about.

RECURSIVE SumSizes(_)
\* the sum of the size fields of a sequence of entries
SumSizes(entries) ==
    IF entries = << >> THEN 0
    ELSE entries[1].size + SumSizes(Tail(entries))

RECURSIVE Nodes(_, _)
\* every entry of the tree under `entry`, with its path
Nodes(entry, path) ==
    {[path |-> path, entry |-> entry]}
    \cup (IF entry.data.kind = "Directory"
          THEN UNION { Nodes(entry.data.children[i],
                             Append(path, entry.data.children[i].name)) :
                       i \in DOMAIN entry.data.children }
          ELSE {})

\* the tree get_file_tree returned
Built == result.kind = "Ok"

Root == result.root_entry

\* every entry built so far from a listed directory entry: those held by the
\* activations of get_child_entries and those of the returned tree
BuiltNodes ==
    UNION { UNION { Nodes(stack[k].entries[i],
                          Append(stack[k].path, stack[k].entries[i].name)) :
                    i \in DOMAIN stack[k].entries } :
            k \in DOMAIN stack }
    \cup (IF Built
          THEN Nodes(Root, root_path) \ {[path |-> root_path, entry |-> Root]}
          ELSE {})

\* the calls of the log that yielded a directory entry
Yields == {i \in DOMAIN calls : calls[i].op = "next" /\ calls[i].res = "ok"}

\* the path of the directory entry the i-th call yielded
YieldedPath(i) == Append(calls[i].path, calls[i].name)

\* the names the listing of `path` yielded, in the order yielded
Listing(path) ==
    LET Yielded(c) == c.op = "next" /\ c.res = "ok" /\ c.path = path
        ys == SelectSeq(calls, Yielded)
    IN  [i \in DOMAIN ys |-> ys[i].name]

\* the file types reported for `path`
TypesOf(path) ==
    {calls[i].type : i \in {j \in DOMAIN calls :
        calls[j].op = "file_type" /\ calls[j].res = "ok" /\ calls[j].path = path}}

\* the links read at `path`
LinksOf(path) ==
    {calls[i].link : i \in {j \in DOMAIN calls :
        calls[j].op = "read_link" /\ calls[j].res = "ok" /\ calls[j].path = path}}

\* the calls of the given operations issued on `path`
CallsOn(ops, path) ==
    {i \in DOMAIN calls : calls[i].op \in ops /\ calls[i].path = path}

\* the kind of Entry that corresponds to a file type
KindOf(type) ==
    CASE type = "dir" -> "Directory"
      [] type = "symlink" -> "Symlink"
      [] type = "file" -> "File"
      [] OTHER -> "Unknown"

Halted == pc \in {"done", "failed", "panicked"}

---------------------------------------------------------------------------
\* C1.  In every tree get_file_tree returns, the size of every Directory
\* entry, the root included, is the sum of the sizes of its direct children.
\* The code adds in u64: the statement fails where the sum does not fit.
C1_SizeIsSumOfChildren ==
    Built =>
        \A n \in Nodes(Root, root_path) :
            n.entry.data.kind = "Directory" =>
                n.entry.size = SumSizes(n.entry.data.children)

---------------------------------------------------------------------------
\* C2.  When a filesystem call fails, it is the last call ever issued,
\* get_file_tree returns the error of that call and no tree, the entries
\* built so far are dropped and nothing is printed.
C2_FirstFailureAborts ==
    LET failures == {i \in DOMAIN calls : calls[i].res = "err"} IN
    /\ failures # {} =>
          /\ failures = {Len(calls)}
          /\ pc = "failed"
          /\ result = [kind |-> "Err", error |-> calls[Len(calls)].err]
          /\ stack = << >>
          /\ BuiltNodes = {}
          /\ output = << >>
    /\ result.kind = "Err" => failures # {}

\* a metadata read two levels below the root fails after entries were built
C2_Witness ==
    /\ pc = "failed"
    /\ calls[Len(calls)].op = "metadata"
    /\ Len(calls[Len(calls)].path) = Len(root_path) + 2
    /\ \E i \in DOMAIN calls : calls[i].op = "read_link" /\ calls[i].res = "ok"

---------------------------------------------------------------------------
\* C3.  A listed entry whose own type is symbolic link becomes a Symlink
\* entry of size 0 holding the raw target, whatever the link leads to; no
\* directory listing and no metadata read is issued on it, and the only
\* paths ever listed are the root and entries whose own type is directory.
C3_SymlinkNeverFollowed ==
    LET nodes == BuiltNodes IN
    /\ \A i \in Yields :
          LET path == YieldedPath(i)
              links == LinksOf(path)
          IN  TypesOf(path) = {"symlink"} =>
                 /\ CallsOn({"read_dir", "next", "metadata"}, path) = {}
                 /\ (pc \notin {"failed", "panicked"} /\ links # {})
                    => \E l \in links :
                          /\ links = {l}
                          /\ [path |-> path,
                              entry |-> Entry(calls[i].name, 0,
                                              Symlink(l.target))] \in nodes
    /\ \A j \in DOMAIN calls :
          calls[j].op = "read_dir" =>
              \/ calls[j].path = root_path
              \/ TypesOf(calls[j].path) = {"dir"}

\* a tree was returned that holds a link to an ancestor directory, a link to
\* itself and a link to nothing
C3_Witness ==
    /\ Built
    /\ \A f \in {"dir", "loop", "none"} :
          \E i \in DOMAIN calls : /\ calls[i].op = "read_link"
                                  /\ calls[i].link.follows = f
                                  /\ \E n \in BuiltNodes :
                                        /\ n.path = calls[i].path
                                        /\ n.entry.data.kind = "Symlink"

---------------------------------------------------------------------------
\* Lines of a text, and the entries of a tree in depth-first pre-order.

RECURSIVE LinesFrom(_, _, _)
\* the lines of `text` from position `start` on, each without its line
\* break; positions start .. i - 1 hold no line break
LinesFrom(text, start, i) ==
    IF i > Len(text)
    THEN (IF start > Len(text) THEN << >>
          ELSE <<SubSeq(text, start, Len(text))>>)
    ELSE IF text[i] = LF
         THEN <<SubSeq(text, start, i - 1)>> \o LinesFrom(text, i + 1, i + 1)
    ELSE LinesFrom(text, start, i + 1)

Lines(text) == LinesFrom(text, 1, 1)

RECURSIVE PreOrder(_, _, _, _)
\* the entries under `entry` in depth-first pre-order, children in stored
\* order; each with its depth, its position among its siblings and their
\* number
PreOrder(entry, depth, index, siblings) ==
    LET RECURSIVE Below(_)
        Below(i) ==
            IF entry.data.kind # "Directory" \/ i > Len(entry.data.children)
            THEN << >>
            ELSE PreOrder(entry.data.children[i], depth + 1, i,
                          Len(entry.data.children)) \o Below(i + 1)
    IN  <<[name |-> entry.name, depth |-> depth, index |-> index,
           siblings |-> siblings]>> \o Below(1)

\* the lines of the rendering that are not empty, the first line (the
\* root's, whose name may be empty) always included
EntryLines(text) ==
    LET ls == Lines(text)
        Kept(i) == i = 1 \/ ls[i] # << >>
        RECURSIVE Keep(_)
        Keep(i) == IF i > Len(ls) THEN << >>
                   ELSE (IF Kept(i) THEN <<ls[i]>> ELSE << >>) \o Keep(i + 1)
    IN  Keep(1)

---------------------------------------------------------------------------
\* C4.  The rendering of an Entry tree has exactly one line per entry: as
\* many lines as entries.  The code ends every Directory with one more line
\* break, so the statement fails for every tree that holds a directory.
C4_OneLinePerEntry ==
    Built => Len(Lines(DebugFmt(Root))) = Len(PreOrder(Root, 0, 1, 1))

---------------------------------------------------------------------------
\* C5.  In the rendering, the line of the last child of a directory has the
\* corner glyph as its connector and the line of every other child has the
\* tee glyph.
C5_LastChildConnector ==
    Built =>
        LET ls == EntryLines(DebugFmt(Root))
            es == PreOrder(Root, 0, 1, 1)
        IN  /\ Len(ls) = Len(es)
            /\ \A k \in DOMAIN es :
                  es[k].depth > 0 =>
                      /\ Len(ls[k]) >= 2 * es[k].depth + 2
                      /\ ls[k][2 * es[k].depth + 2] =
                            (IF es[k].index = es[k].siblings
                             THEN CORNER ELSE TEE)

\* a directory with two children, the first a directory with one child
C5_Witness ==
    /\ pc = "done"
    /\ Len(Root.data.children) = 2
    /\ Root.data.children[1].data.kind = "Directory"
    /\ Len(Root.data.children[1].data.children) = 1

---------------------------------------------------------------------------
\* C6.  In a returned tree the children of every Directory are the entries
\* its listing yielded: as many, in the same order, the i-th child built
\* from the i-th entry yielded.
C6_ListingOrderKept ==
    Built =>
        \A n \in Nodes(Root, root_path) :
            n.entry.data.kind = "Directory" =>
                LET listed == Listing(n.path)
                    children == n.entry.data.children
                IN  /\ Len(children) = Len(listed)
                    /\ \A i \in DOMAIN children :
                          /\ children[i].name = listed[i]
                          /\ TypesOf(Append(n.path, listed[i]))
                                = {t \in FileTypes :
                                      KindOf(t) = children[i].data.kind}

\* the root's listing yielded three entries, the first two not in byte order
C6_Witness ==
    /\ Built
    /\ Len(Root.data.children) = 3
    /\ Root.data.children[1].name = <<98, 255>>
    /\ Root.data.children[2].name = <<97>>

---------------------------------------------------------------------------
\* C7.  On a successful run standard output ends with the line of the last
\* entry followed by one line break and no further line break.  The code
\* writes the line break that closes the root directory and println! adds
\* one more.
C7_OneTrailingLineBreak ==
    pc = "done" =>
        /\ output # << >>
        /\ output[Len(output)] = LF
        /\ Len(output) >= 2 => output[Len(output) - 1] # LF

---------------------------------------------------------------------------
\* C8.  Every entry built from a listed directory entry has the kind of the
\* entry's own file type; a File has the length its metadata read reported,
\* a Symlink and an Unknown have size 0, only a Directory has children, and
\* for an entry of no known type neither metadata, link nor listing is read.
C8_Classification ==
    /\ \A n \in BuiltNodes :
          LET types == TypesOf(n.path)
              reads == CallsOn({"metadata"}, n.path)
              kind == n.entry.data.kind
          IN  /\ \E i \in Yields : /\ YieldedPath(i) = n.path
                                   /\ calls[i].name = n.entry.name
              /\ types = {t \in FileTypes : KindOf(t) = kind}
              /\ kind = "File" =>
                    /\ DOMAIN n.entry.data = {"kind"}
                    /\ \E j \in reads : /\ reads = {j}
                                        /\ n.entry.size = calls[j].len
              /\ kind = "Symlink" =>
                    /\ DOMAIN n.entry.data = {"kind", "target"}
                    /\ n.entry.size = 0
              /\ kind = "Unknown" =>
                    /\ DOMAIN n.entry.data = {"kind"}
                    /\ n.entry.size = 0
    /\ \A i \in Yields :
          "other" \in TypesOf(YieldedPath(i)) =>
              CallsOn({"metadata", "read_link", "read_dir", "next"},
                      YieldedPath(i)) = {}

\* a returned tree with a File of 6 EiB, a Symlink and an Unknown entry
C8_Witness ==
    /\ Built
    /\ \E n \in BuiltNodes : n.entry.data.kind = "File" /\ n.entry.size = 3
    /\ \E n \in BuiltNodes : n.entry.data.kind = "Symlink"
    /\ \E n \in BuiltNodes : n.entry.data.kind = "Unknown"

---------------------------------------------------------------------------
\* C9.  The rendering holds the entries in depth-first pre-order, children
\* in stored order; the line of an entry at depth d is d segments of space
\* and vertical bar, then, if d > 0, a segment of space and corner or tee,
\* then the name; the depth of a child is the depth of its parent plus 1.
C9_LineLayout ==
    Built =>
        LET ls == EntryLines(DebugFmt(Root))
            es == PreOrder(Root, 0, 1, 1)
        IN  /\ Len(ls) = Len(es)
            /\ \A k \in DOMAIN es :
                  LET d == es[k].depth
                      shown == ToStringLossy(es[k].name)
                      start == IF d > 0 THEN 2 * d + 2 ELSE 0
                  IN  /\ Len(ls[k]) = start + Len(shown)
                      /\ \A j \in 1..d : /\ ls[k][2 * j - 1] = SP
                                         /\ ls[k][2 * j] = BAR
                      /\ d > 0 => /\ ls[k][2 * d + 1] = SP
                                  /\ ls[k][2 * d + 2] \in {CORNER, TEE}
                      /\ SubSeq(ls[k], start + 1, Len(ls[k])) = shown

\* an entry with an undecodable name at depth 2, after its parent
C9_Witness ==
    /\ pc = "done"
    /\ Len(Root.data.children) = 2
    /\ Root.data.children[1].data.kind = "Directory"
    /\ Len(Root.data.children[1].data.children) = 1
    /\ Root.data.children[1].data.children[1].name = <<98, 255>>
    /\ Root.name = <<114>>

---------------------------------------------------------------------------
\* C10.  get_file_tree ends with a tree or with an error, having listed
\* every directory at most once and converted every listed entry exactly
\* once, whatever the symbolic links lead to.  The overflow panic of C1 ends
\* it with neither.
C10_EndsWithTreeOrError ==
    /\ Halted => result.kind \in {"Ok", "Err"}
    /\ \A i, j \in DOMAIN calls :
          (calls[i].op = "read_dir" /\ calls[j].op = "read_dir"
              /\ calls[i].path = calls[j].path) => i = j
    /\ Built =>
          \A i \in Yields :
              Cardinality({n \in BuiltNodes : n.path = YieldedPath(i)}) = 1

\* The single thread runs until the process exits.
Terminates == <>Halted
=============================================================================
